---- MODULE Spec2Model ----
(***************************************************************************)
(* CCMem project memory store: the SQLite-backed server (CCMemServer,      *)
(* server.js + schema.sql) and the JSON-file fallback (CCMemNodeServer,    *)
(* server-node.js).  Every tool call is delivered to both servers, each    *)
(* working on its own store, so their stores and answers can be compared.  *)
(***************************************************************************)
EXTENDS Integers, Sequences, FiniteSets, TLC

\* ------------------------------------------------------------------ bounds
MaxCalls == 1          \* tool calls in a run of Spec
MaxSettingCalls == 2   \* tool calls in a run of SpecSettings
MaxUpsertCalls == 2    \* tool calls in a run of SpecUpsert
MaxWorkCalls == 2      \* tool calls in a run of SpecWork
MaxClock == 1          \* ticks of the wall clock
MaxContextCalls == 5   \* tool calls in a run of SpecContext
MaxCurrentCalls == 6   \* tool calls in a run of SpecCurrent
MaxPriorityCalls == 3  \* tool calls in a run of SpecPriority
MaxSearchCalls == 7    \* tool calls in a run of SpecSearch
MaxStartupCalls == 2   \* tool calls in a run of SpecStartup
MaxWriterCalls == 3    \* tool calls in a run of SpecWriters
MaxAppendCalls == 2    \* tool calls in a run of SpecAppend
MaxRequests == 3       \* requests written to stdin in a run of SpecRequests

\* ------------------------------------------------------------------ values
\* JS undefined/null and SQL NULL, for a string-valued and a number-valued slot.
NULL == "<NULL>"
NULLNUM == -1000
\* A searchable text (title, description, content) is a sequence of characters.
NULLTEXT == <<"<NULL>">>

\* JS `x || d` on a string: undefined, null and "" are falsy.
OrText(x, d) == IF x = NULL \/ x = "" THEN d ELSE x
\* JS `x || d` on a number: undefined, null and 0 are falsy.
OrNum(x, d) == IF x = NULLNUM \/ x = 0 THEN d ELSE x

Range(s) == {s[i] : i \in DOMAIN s}

\* ------------------------------------------------------------------ state
VARIABLES
    now,              \* wall clock (CURRENT_TIMESTAMP, Date.now())
    db,               \* CCMemServer: the tables of ccmem.sqlite, each in rowid order
    sqlite_sequence,  \* CCMemServer: AUTOINCREMENT high-water mark per table
    data,             \* CCMemNodeServer: this.data
    file,             \* CCMemNodeServer: content of ccmem.json
    writable,         \* whether writeFileSync on ccmem.json succeeds at present
    last,             \* the last tool call and what each server answered
    calls,            \* number of tool calls so far
    readable,         \* whether ccmem.json can be read and parsed at present
    peer,             \* this.data of a second CCMemNodeServer process on ccmem.json
    stdin,            \* requests written to the server's stdin, not yet read
    stdout            \* messages the server has emitted (sendResponse, sendError)

vars == <<now, db, sqlite_sequence, data, file, writable, last, calls,
          readable, peer, stdin, stdout>>

\* What the tool handlers themselves never touch: the state of the file
\* system, of other processes and of the pipes.
procvars == <<readable, peer, stdin, stdout>>

Tables == {"settings", "architecture", "deployment", "story", "task",
           "defect", "lessons", "knowledge"}

EmptyStore == [t \in Tables |-> <<>>]

Init ==
    /\ now = 0
    /\ db = EmptyStore
    /\ sqlite_sequence = [t \in Tables |-> 0]
    /\ data = EmptyStore
    /\ file = EmptyStore
    /\ writable = TRUE
    /\ last = [op |-> "none"]
    /\ calls = 0
    /\ readable = TRUE
    /\ peer = EmptyStore
    /\ stdin = [sent |-> 0, pending |-> <<>>]
    /\ stdout = <<>>

\* ------------------------------------------------------------------ answers
Ok(line) == [ok |-> TRUE, text |-> <<line>>]
OkText(lines) == [ok |-> TRUE, text |-> lines]
Err(message) == [ok |-> FALSE, error |-> message]

\* handleCallTool of the fallback server knows two tools only.
UnknownTool == Err("Unknown tool")

\* ------------------------------------------------------------------ SQLite
\* AUTOINCREMENT: the new rowid is one more than the largest ever used.
NextRowidReused(t) == IF sqlite_sequence[t] = 0 THEN 1 ELSE sqlite_sequence[t]
NextRowid(t) == sqlite_sequence[t] + 1

\* Outcome of one statement: the new tables, the new sequence and the answer.
Outcome(d, s, r) == [db |-> d, seq |-> s, resp |-> r]
Failed(message) == Outcome(db, sqlite_sequence, Err(message))

\* INSERT of `row` into table t; `kept` are the rows of t the statement does not
\* delete (all of them, but for the rows an OR REPLACE conflicts with).
InsertRow(t, kept, row, line) ==
    Outcome([db EXCEPT ![t] = kept \o <<row>>],
            [sqlite_sequence EXCEPT ![t] = row.id],
            Ok(line))

\* ------------------------------------------------------------------ learnSetting
\* UNIQUE(category, key_name) of table settings.
SettingsConflictNever(r, category, key) == FALSE
SettingsConflict(r, category, key) == r.category = category /\ r.key_name = key

SettingLine(args) ==
    [tpl |-> "Learned setting", category |-> args.category, key |-> args.key,
     value |-> args.value]

CCMemServer_learnSetting(args) ==
    IF args.category = NULL \/ args.key = NULL \/ args.value = NULL
    THEN Failed("NOT NULL constraint failed")
    ELSE InsertRow("settings",
                   SelectSeq(db.settings,
                             LAMBDA r : ~SettingsConflict(r, args.category, args.key)),
                   [id |-> NextRowid("settings"), category |-> args.category,
                    key_name |-> args.key, value |-> args.value,
                    description |-> OrText(args.description, NULL),
                    created_at |-> now, updated_at |-> now],
                   SettingLine(args))

\* The filter of the fallback server: keep what is not the (category, key) written.
NodeKeeps(s, category, key) == ~(s.category = category /\ s.key_name = key)

CCMemNodeServer_learnSettingOn(store, args) ==
    [data |-> [store EXCEPT !.settings =
                  SelectSeq(store.settings,
                              LAMBDA s : NodeKeeps(s, args.category, args.key))
                  \o <<[id |-> now, category |-> args.category,
                        key_name |-> args.key, value |-> args.value,
                        description |-> OrText(args.description, NULL),
                        created_at |-> now, updated_at |-> now]>>],
     resp |-> Ok(SettingLine(args))]

CCMemNodeServer_learnSetting(args) == CCMemNodeServer_learnSettingOn(data, args)

\* saveData: when writeFileSync throws, the error is logged and the call goes on.
saveData(newData) == file' = IF writable THEN newData ELSE file

SettingDescriptions == {NULL, "", "how to run"}

\* The two settings the status view shows, each written with several values, a
\* third setting, one setting with every description, and one call per omitted
\* required field.
SettingArgs ==
    {[category |-> "start", key |-> "command", value |-> v, description |-> d] :
        v \in {"npm start"}, d \in SettingDescriptions}
    \cup {[category |-> "start", key |-> "command", value |-> v, description |-> NULL] :
        v \in {"", "npm run dev"}}
    \cup {[category |-> "test", key |-> "command", value |-> "npm test", description |-> NULL],
          [category |-> "start", key |-> "port", value |-> "3000", description |-> NULL],
          [category |-> NULL, key |-> "command", value |-> "npm start", description |-> NULL],
          [category |-> "start", key |-> NULL, value |-> "npm start", description |-> NULL],
          [category |-> "start", key |-> "command", value |-> NULL, description |-> NULL]}

learnSetting(args) ==
    LET b == CCMemServer_learnSetting(args)
        n == CCMemNodeServer_learnSetting(args)
    IN  /\ db' = b.db
        /\ sqlite_sequence' = b.seq
        /\ data' = n.data
        /\ saveData(n.data)
        /\ last' = [op |-> "learnSetting", args |-> args, bun |-> b.resp, node |-> n.resp]
        /\ calls' = calls + 1
        /\ UNCHANGED <<now, writable>>

\* ------------------------------------------------------------------ learnArchitecture
\* Table architecture declares no UNIQUE constraint: the only key an
\* INSERT OR REPLACE can conflict on is the rowid, and that one is fresh.
ArchitectureConflict(r, component) == FALSE

ArchitectureLine(args) ==
    [tpl |-> "Learned architecture", component |-> args.component,
     tech_stack |-> args.tech_stack]

CCMemServer_learnArchitecture(args) ==
    IF args.component = NULL \/ args.description = NULL \/ args.tech_stack = NULL
    THEN Failed("NOT NULL constraint failed")
    ELSE InsertRow("architecture",
                   SelectSeq(db.architecture,
                             LAMBDA r : ~ArchitectureConflict(r, args.component)),
                   [id |-> NextRowid("architecture"), component |-> args.component,
                    description |-> args.description, tech_stack |-> args.tech_stack,
                    file_paths |-> OrText(args.file_paths, NULL),
                    patterns |-> OrText(args.patterns, NULL),
                    created_at |-> now, updated_at |-> now],
                   ArchitectureLine(args))

ArchitectureArgs ==
    {[component |-> c, description |-> d, tech_stack |-> "node,express",
      file_paths |-> NULL, patterns |-> NULL] :
        c \in {"api", "db"}, d \in {"rest api", "storage"}}
    \cup {[component |-> "api", description |-> "rest api", tech_stack |-> "node,express",
           file_paths |-> "src/api.js", patterns |-> ""],
          [component |-> NULL, description |-> "rest api", tech_stack |-> "node,express",
           file_paths |-> NULL, patterns |-> NULL],
          [component |-> "api", description |-> NULL, tech_stack |-> "node,express",
           file_paths |-> NULL, patterns |-> NULL],
          [component |-> "api", description |-> "rest api", tech_stack |-> NULL,
           file_paths |-> NULL, patterns |-> NULL]}

\* A tool the fallback server does not know: handleCallTool throws, nothing changes.
NodeUnknown(op, args, b) ==
    /\ db' = b.db
    /\ sqlite_sequence' = b.seq
    /\ last' = [op |-> op, args |-> args, bun |-> b.resp, node |-> UnknownTool]
    /\ calls' = calls + 1
    /\ UNCHANGED <<now, data, file, writable>>

learnArchitecture(args) ==
    NodeUnknown("learnArchitecture", args, CCMemServer_learnArchitecture(args))

\* ------------------------------------------------------------------ learnDeployment
\* Table deployment declares no UNIQUE constraint either.
DeploymentConflict(r, environment) == FALSE

DeploymentLine(args) == [tpl |-> "Learned deployment", environment |-> args.environment]

CCMemServer_learnDeployment(args) ==
    IF args.environment = NULL \/ args.deployment_steps = NULL
    THEN Failed("NOT NULL constraint failed")
    ELSE InsertRow("deployment",
                   SelectSeq(db.deployment,
                             LAMBDA r : ~DeploymentConflict(r, args.environment)),
                   [id |-> NextRowid("deployment"), environment |-> args.environment,
                    target_host |-> OrText(args.target_host, NULL),
                    deployment_steps |-> args.deployment_steps,
                    test_verification |-> OrText(args.test_verification, NULL),
                    rollback_steps |-> OrText(args.rollback_steps, NULL),
                    last_deployed_at |-> NULLNUM,
                    created_at |-> now, updated_at |-> now],
                   DeploymentLine(args))

DeploymentArgs ==
    {[environment |-> e, target_host |-> NULL, deployment_steps |-> st,
      test_verification |-> NULL, rollback_steps |-> NULL] :
        e \in {"dev", "production"}, st \in {"push", "build;push"}}
    \cup {[environment |-> "dev", target_host |-> "host1", deployment_steps |-> "push",
           test_verification |-> "", rollback_steps |-> NULL],
          [environment |-> NULL, target_host |-> NULL, deployment_steps |-> "push",
           test_verification |-> NULL, rollback_steps |-> NULL],
          [environment |-> "dev", target_host |-> NULL, deployment_steps |-> NULL,
           test_verification |-> NULL, rollback_steps |-> NULL]}

learnDeployment(args) ==
    NodeUnknown("learnDeployment", args, CCMemServer_learnDeployment(args))

\* ------------------------------------------------------------------ append operations
\* The tables story, task, defect, lessons and knowledge have no key but the
\* rowid, and their INSERTs are plain: no row is ever deleted.

\* Column DEFAULTs of schema.sql for the columns the INSERTs leave out.
DefaultStoryStatus == "active"
DefaultTaskStatus == "todo"
DefaultDefectStatus == "open"

\* The fallbacks the handlers apply to omitted optional arguments.
StoryPriorityCritical(priority) == OrNum(priority, 1)
StoryPriority(priority) == OrNum(priority, 3)
DefectSeverity(severity) == OrText(severity, "medium")
LessonImpact(impact_level) == OrText(impact_level, "medium")
KnowledgeCategory(category) == OrText(category, "general")

\* result.lastInsertRowid as the handlers interpolate it into the confirmation.
StoryLine(id, args) == [tpl |-> "Created story", id |-> id, title |-> args.title]
TaskLine(id, args) ==
    [tpl |-> "Created task", id |-> id, title |-> args.title,
     linked |-> OrNum(args.story_id, NULLNUM)]
DefectLine(id, args) ==
    [tpl |-> "Logged defect", id |-> id, title |-> args.title,
     severity |-> DefectSeverity(args.severity)]
LessonLine(id, args) ==
    [tpl |-> "Recorded lesson", title |-> args.title, category |-> args.category,
     impact_level |-> LessonImpact(args.impact_level)]
KnowledgeLine(id, args) == [tpl |-> "Added knowledge", title |-> args.title]

\* A createStory that replaces the story of the same title.
CCMemServer_createStoryReplacing(args) ==
    IF args.title = NULLTEXT \/ args.description = NULLTEXT
    THEN Failed("NOT NULL constraint failed")
    ELSE InsertRow("story",
                   SelectSeq(db.story, LAMBDA r : r.title # args.title),
                   [id |-> NextRowid("story"), title |-> args.title,
                    description |-> args.description, status |-> DefaultStoryStatus,
                    priority |-> StoryPriority(args.priority),
                    files_affected |-> OrText(args.files_affected, NULL),
                    created_at |-> now, updated_at |-> now, completed_at |-> NULLNUM],
                   StoryLine(NextRowid("story"), args))

CCMemServer_createStory(args) ==
    IF args.title = NULLTEXT \/ args.description = NULLTEXT
    THEN Failed("NOT NULL constraint failed")
    ELSE InsertRow("story", db.story,
                   [id |-> NextRowid("story"), title |-> args.title,
                    description |-> args.description, status |-> DefaultStoryStatus,
                    priority |-> StoryPriority(args.priority),
                    files_affected |-> OrText(args.files_affected, NULL),
                    created_at |-> now, updated_at |-> now, completed_at |-> NULLNUM],
                   StoryLine(NextRowid("story"), args))

\* PRAGMA foreign_keys is never switched on, so the FOREIGN KEY clauses of task
\* and defect are not enforced: a reference to a missing row violates nothing.
ForeignKeyEnforced(t, ref) == ref # NULLNUM /\ \A r \in Range(db[t]) : r.id # ref
ForeignKeyViolated(t, ref) == FALSE

CCMemServer_createTask(args) ==
    IF args.title = NULLTEXT \/ args.description = NULLTEXT
    THEN Failed("NOT NULL constraint failed")
    ELSE IF ForeignKeyViolated("story", OrNum(args.story_id, NULLNUM))
    THEN Failed("FOREIGN KEY constraint failed")
    ELSE InsertRow("task", db.task,
                   [id |-> NextRowid("task"), story_id |-> OrNum(args.story_id, NULLNUM),
                    title |-> args.title, description |-> args.description,
                    status |-> DefaultTaskStatus,
                    files_affected |-> OrText(args.files_affected, NULL),
                    implementation_notes |-> OrText(args.implementation_notes, NULL),
                    created_at |-> now, updated_at |-> now, completed_at |-> NULLNUM],
                   TaskLine(NextRowid("task"), args))

CCMemServer_logDefect(args) ==
    IF args.title = NULLTEXT \/ args.description = NULLTEXT
    THEN Failed("NOT NULL constraint failed")
    ELSE IF \/ ForeignKeyViolated("story", OrNum(args.story_id, NULLNUM))
            \/ ForeignKeyViolated("task", OrNum(args.task_id, NULLNUM))
    THEN Failed("FOREIGN KEY constraint failed")
    ELSE InsertRow("defect", db.defect,
                   [id |-> NextRowid("defect"), story_id |-> OrNum(args.story_id, NULLNUM),
                    task_id |-> OrNum(args.task_id, NULLNUM),
                    title |-> args.title, description |-> args.description,
                    severity |-> DefectSeverity(args.severity),
                    status |-> DefaultDefectStatus,
                    files_affected |-> OrText(args.files_affected, NULL),
                    fix_description |-> NULL,
                    created_at |-> now, resolved_at |-> NULLNUM],
                   DefectLine(NextRowid("defect"), args))

CCMemServer_recordLesson(args) ==
    IF args.title = NULLTEXT \/ args.description = NULLTEXT \/ args.category = NULL
    THEN Failed("NOT NULL constraint failed")
    ELSE InsertRow("lessons", db.lessons,
                   [id |-> NextRowid("lessons"), title |-> args.title,
                    description |-> args.description, category |-> args.category,
                    impact_level |-> LessonImpact(args.impact_level),
                    related_files |-> OrText(args.related_files, NULL),
                    tags |-> OrText(args.tags, NULL), created_at |-> now],
                   LessonLine(NextRowid("lessons"), args))

CCMemServer_addKnowledge(args) ==
    IF args.title = NULLTEXT \/ args.content = NULLTEXT
    THEN Failed("NOT NULL constraint failed")
    ELSE InsertRow("knowledge", db.knowledge,
                   [id |-> NextRowid("knowledge"), title |-> args.title,
                    content |-> args.content,
                    category |-> KnowledgeCategory(args.category),
                    tags |-> OrText(args.tags, NULL),
                    created_at |-> now, updated_at |-> now],
                   KnowledgeLine(NextRowid("knowledge"), args))

\* Texts the callers pass: characters, so that search can match inside them.
Title1 == <<"A", "b">>
Title2 == <<"b", "c">>
Body1 == <<"a", "c">>

StoryArgs ==
    {[title |-> Title1, description |-> Body1, priority |-> p, files_affected |-> NULL] :
        p \in {NULLNUM, 0, 1, 5}}
    \cup {[title |-> Title2, description |-> Body1, priority |-> NULLNUM,
           files_affected |-> "src/a.js"],
          [title |-> NULLTEXT, description |-> Body1, priority |-> NULLNUM,
           files_affected |-> NULL],
          [title |-> Title1, description |-> NULLTEXT, priority |-> NULLNUM,
           files_affected |-> NULL]}

\* References: absent, 0, the first id a table assigns, an id never assigned.
TaskArgs ==
    {[story_id |-> ref, title |-> Title1, description |-> Body1, files_affected |-> NULL,
      implementation_notes |-> NULL] : ref \in {NULLNUM, 0, 1, 7}}
    \cup {[story_id |-> NULLNUM, title |-> Title2, description |-> Body1,
           files_affected |-> NULL, implementation_notes |-> ""],
          [story_id |-> NULLNUM, title |-> NULLTEXT, description |-> Body1,
           files_affected |-> NULL, implementation_notes |-> NULL],
          [story_id |-> 7, title |-> Title1, description |-> NULLTEXT,
           files_affected |-> NULL, implementation_notes |-> NULL]}

DefectArgs ==
    {[title |-> Title1, description |-> Body1, severity |-> sv, files_affected |-> NULL,
      story_id |-> NULLNUM, task_id |-> NULLNUM] : sv \in {NULL, "", "high"}}
    \cup {[title |-> Title1, description |-> Body1, severity |-> NULL,
           files_affected |-> NULL, story_id |-> ref[1], task_id |-> ref[2]] :
            ref \in {<<7, NULLNUM>>, <<1, 7>>, <<0, 0>>}}
    \cup {[title |-> NULLTEXT, description |-> Body1, severity |-> NULL,
           files_affected |-> NULL, story_id |-> NULLNUM, task_id |-> NULLNUM],
          [title |-> Title1, description |-> NULLTEXT, severity |-> NULL,
           files_affected |-> NULL, story_id |-> NULLNUM, task_id |-> 7]}

LessonArgs ==
    {[title |-> Title1, description |-> Body1, category |-> "process", impact_level |-> i,
      related_files |-> NULL, tags |-> NULL] : i \in {NULL, "", "high"}}
    \cup {[title |-> NULLTEXT, description |-> Body1, category |-> "process",
           impact_level |-> NULL, related_files |-> NULL, tags |-> NULL],
          [title |-> Title1, description |-> NULLTEXT, category |-> "process",
           impact_level |-> NULL, related_files |-> NULL, tags |-> NULL],
          [title |-> Title1, description |-> Body1, category |-> NULL,
           impact_level |-> NULL, related_files |-> NULL, tags |-> NULL]}

KnowledgeArgs ==
    {[title |-> Title2, content |-> Body1, category |-> c, tags |-> NULL] :
        c \in {NULL, "", "reference"}}
    \cup {[title |-> NULLTEXT, content |-> Body1, category |-> NULL, tags |-> NULL],
          [title |-> Title2, content |-> NULLTEXT, category |-> NULL, tags |-> NULL]}

createStory(args) == NodeUnknown("createStory", args, CCMemServer_createStory(args))
createTask(args) == NodeUnknown("createTask", args, CCMemServer_createTask(args))
logDefect(args) == NodeUnknown("logDefect", args, CCMemServer_logDefect(args))
recordLesson(args) == NodeUnknown("recordLesson", args, CCMemServer_recordLesson(args))
addKnowledge(args) == NodeUnknown("addKnowledge", args, CCMemServer_addKnowledge(args))

\* ------------------------------------------------------------------ queries
\* Lexicographic order of two sort keys (tuples of integers of one length).
RECURSIVE KeyLess(_, _)
KeyLess(x, y) ==
    IF x = <<>> THEN FALSE
    ELSE Head(x) < Head(y) \/ (Head(x) = Head(y) /\ KeyLess(Tail(x), Tail(y)))

\* ORDER BY: rows[i] is sorted on keys[i], ascending; rows whose keys are equal
\* keep the order of the scan (rowid order).
OrderBy(rows, keys) ==
    LET n == Len(rows)
        Before(j, i) == KeyLess(keys[j], keys[i]) \/ (keys[j] = keys[i] /\ j < i)
        Rank(i) == Cardinality({j \in 1..n : Before(j, i)}) + 1
    IN  [k \in 1..n |-> rows[CHOOSE i \in 1..n : Rank(i) = k]]

\* LIMIT k
Limit(rows, k) == SubSeq(rows, 1, IF Len(rows) < k THEN Len(rows) ELSE k)

\* String.prototype.substring(0, n)
Substring(text, n) == SubSeq(text, 1, IF Len(text) < n THEN Len(text) ELSE n)

\* BINARY collation of the strings the callers use as keys.
Collation == <<"api", "command", "db", "port", "start", "test">>
CollationIndex(x) == CHOOSE i \in DOMAIN Collation : Collation[i] = x

\* Array.prototype.forEach pushing lines: the lines of the rows, in order.
RECURSIVE Lines(_, _)
Lines(rows, LineOf) ==
    IF rows = <<>> THEN <<>> ELSE LineOf[Head(rows)] \o Lines(Tail(rows), LineOf)

\* ------------------------------------------------------------------ getContext
\* VIEW project_status
StatusValue(category, key) ==
    LET hit == SelectSeq(db.settings, LAMBDA r : r.category = category /\ r.key_name = key)
    IN  IF hit = <<>> THEN NULL ELSE hit[1].value

project_status ==
    [active_stories |-> Len(SelectSeq(db.story, LAMBDA r : r.status = "active")),
     pending_tasks |-> Len(SelectSeq(db.task, LAMBDA r : r.status \in {"todo", "in_progress"})),
     open_defects |-> Len(SelectSeq(db.defect, LAMBDA r : r.status = "open")),
     lessons_count |-> Len(db.lessons),
     start_command |-> StatusValue("start", "command"),
     test_command |-> StatusValue("test", "command")]

\* `if (status?.start_command)`: an empty string is falsy too.
CommandLine(tpl, value) ==
    IF value = NULL \/ value = "" THEN <<>> ELSE <<[tpl |-> tpl, value |-> value]>>

StatusBlock ==
    LET status == project_status
    IN  <<[tpl |-> "## Project Status"],
          [tpl |-> "- Active Stories", n |-> status.active_stories],
          [tpl |-> "- Pending Tasks", n |-> status.pending_tasks],
          [tpl |-> "- Open Defects", n |-> status.open_defects],
          [tpl |-> "- Lessons Learned", n |-> status.lessons_count]>>
        \o CommandLine("- Start Command", status.start_command)
        \o CommandLine("- Test Command", status.test_command)

\* A section without the `length > 0` test.
SectionUnguarded(header, rows, LineOf) == <<[tpl |-> header]>> \o Lines(rows, LineOf)

\* A section: its header and its lines, nothing when the query returns no row.
Section(header, rows, LineOf) ==
    IF Len(rows) > 0 THEN <<[tpl |-> header]>> \o Lines(rows, LineOf) ELSE <<>>

\* ORDER BY category, key_name
SettingsOrder(rows) ==
    [i \in DOMAIN rows |->
        <<CollationIndex(rows[i].category), CollationIndex(rows[i].key_name)>>]

SettingsLineOf(rows) ==
    [s \in Range(rows) |->
        <<[tpl |-> "- setting", category |-> s.category, key_name |-> s.key_name,
           value |-> s.value]>>]

SettingsSection ==
    LET settings == OrderBy(db.settings, SettingsOrder(db.settings))
    IN  Section("## Key Settings", settings, SettingsLineOf(settings))

ArchitectureSection ==
    LET arch == OrderBy(db.architecture,
                        [i \in DOMAIN db.architecture |->
                            <<CollationIndex(db.architecture[i].component)>>])
    IN  Section("## Architecture", arch,
                [a \in Range(arch) |->
                    <<[tpl |-> "- component", component |-> a.component,
                       description |-> a.description],
                      [tpl |-> "  - Tech", tech_stack |-> a.tech_stack]>>])

ActiveStoriesLimit == 3
PendingTasksLimit == 5
RecentLessonsLimit == 3
LessonPreviewLength == 100

\* ORDER BY priority, created_at DESC
StoryOrder(rows) == [i \in DOMAIN rows |-> <<rows[i].priority, 0 - rows[i].created_at>>]

\* ORDER BY created_at DESC
NewestFirst(rows) == [i \in DOMAIN rows |-> <<0 - rows[i].created_at>>]

ActiveStories ==
    LET active == SelectSeq(db.story, LAMBDA r : r.status = "active")
    IN  Limit(OrderBy(active, StoryOrder(active)), ActiveStoriesLimit)

\* The pending tasks without the ORDER BY.
PendingTasksUnordered ==
    Limit(SelectSeq(db.task, LAMBDA r : r.status \in {"todo", "in_progress"}),
          PendingTasksLimit)

PendingTasks ==
    LET pending == SelectSeq(db.task, LAMBDA r : r.status \in {"todo", "in_progress"})
    IN  Limit(OrderBy(pending, NewestFirst(pending)), PendingTasksLimit)

RecentLessons == Limit(OrderBy(db.lessons, NewestFirst(db.lessons)), RecentLessonsLimit)

CurrentSection ==
    Section("## Active Stories", ActiveStories,
            [r \in Range(ActiveStories) |->
                <<[tpl |-> "- Story", id |-> r.id, title |-> r.title]>>])
    \o Section("## Pending Tasks", PendingTasks,
               [r \in Range(PendingTasks) |->
                   <<[tpl |-> "- Task", id |-> r.id, title |-> r.title,
                      status |-> r.status]>>])

\* The line always ends in "...", whatever the length of the description.
RecentSection ==
    Section("## Recent Lessons", RecentLessons,
            [l \in Range(RecentLessons) |->
                <<[tpl |-> "- lesson", title |-> l.title, category |-> l.category,
                   preview |-> Substring(l.description, LessonPreviewLength),
                   ellipsis |-> TRUE]>>])

\* const { focus = 'all' } = args
Focus(args) == IF args.focus = NULL THEN "all" ELSE args.focus

\* getContext with every `if (focus === ...)` taken.
CCMemServer_getContextUnfocused(args) ==
    OkText(StatusBlock \o SettingsSection \o ArchitectureSection
           \o CurrentSection \o RecentSection)

CCMemServer_getContext(args) ==
    LET focus == Focus(args)
    IN  OkText(StatusBlock
               \o (IF focus \in {"all", "settings"} THEN SettingsSection ELSE <<>>)
               \o (IF focus \in {"all", "architecture"} THEN ArchitectureSection ELSE <<>>)
               \o (IF focus \in {"all", "current"} THEN CurrentSection ELSE <<>>)
               \o (IF focus \in {"all", "recent"} THEN RecentSection ELSE <<>>))

\* The fallback server counts other things and lists the settings as stored.
NodeStatusBlock ==
    <<[tpl |-> "## Project Status"],
      [tpl |-> "- Settings Learned", n |-> Len(data.settings)],
      [tpl |-> "- Architecture Components", n |-> Len(data.architecture)],
      [tpl |-> "- Active Stories",
       n |-> Len(SelectSeq(data.story, LAMBDA r : r.status = "active"))]>>

CCMemNodeServer_getContext(args) ==
    LET focus == Focus(args)
    IN  OkText(NodeStatusBlock
               \o (IF focus \in {"all", "settings"}
                   THEN Section("## Key Settings", data.settings,
                                SettingsLineOf(data.settings))
                   ELSE <<>>))

FocusArgs == {[focus |-> f] :
                f \in {NULL, "all", "settings", "architecture", "current", "recent", "other"}}

\* A getContext that ends with saveData().
getContextSaving(args) ==
    /\ last' = [op |-> "getContext", args |-> args,
                bun |-> CCMemServer_getContext(args),
                node |-> CCMemNodeServer_getContext(args)]
    /\ saveData(data)
    /\ UNCHANGED <<now, db, sqlite_sequence, data, writable, calls>>

getContext(args) ==
    /\ last' = [op |-> "getContext", args |-> args,
                bun |-> CCMemServer_getContext(args),
                node |-> CCMemNodeServer_getContext(args)]
    /\ UNCHANGED <<now, db, sqlite_sequence, data, file, writable, calls>>

\* ------------------------------------------------------------------ search
\* String.prototype.toLowerCase / SQL LOWER on the letters the texts use.
LowerChar(c) ==
    CASE c = "A" -> "a" [] c = "B" -> "b" [] c = "C" -> "c" [] OTHER -> c
ToLower(text) == [i \in DOMAIN text |-> LowerChar(text[i])]

\* SQL LIKE: % matches any run of characters, _ any one character, letters
\* match without regard to case.
RECURSIVE Like(_, _)
Like(text, pattern) ==
    IF pattern = <<>> THEN text = <<>>
    ELSE IF Head(pattern) = "%"
         THEN Like(text, Tail(pattern)) \/ (text # <<>> /\ Like(Tail(text), pattern))
         ELSE /\ text # <<>>
              /\ Head(pattern) = "_" \/ LowerChar(Head(pattern)) = LowerChar(Head(text))
              /\ Like(Tail(text), Tail(pattern))

SearchLimit == 5
SearchPreviewLength == 150

\* const searchTerm = `%${query.toLowerCase()}%`
SearchTerm(query) == <<"%">> \o ToLower(query) \o <<"%">>

\* One of the four SELECTs without its ORDER BY.
SearchTableUnordered(type, rows, term) ==
    LET matching == SelectSeq(rows, LAMBDA r : Like(ToLower(r.title), term)
                                               \/ Like(ToLower(r.description), term))
        hits == Limit(matching, SearchLimit)
    IN  [i \in DOMAIN hits |->
            [type |-> type, id |-> hits[i].id, title |-> hits[i].title,
             description |-> hits[i].description]]

\* One of the four SELECTs: the matching rows, newest first, at most five.
SearchTable(type, rows, term) ==
    LET matching == SelectSeq(rows, LAMBDA r : Like(ToLower(r.title), term)
                                               \/ Like(ToLower(r.description), term))
        hits == Limit(OrderBy(matching, NewestFirst(matching)), SearchLimit)
    IN  [i \in DOMAIN hits |->
            [type |-> type, id |-> hits[i].id, title |-> hits[i].title,
             description |-> hits[i].description]]

\* SELECT ... content as description ... FROM knowledge
KnowledgeRows ==
    [i \in DOMAIN db.knowledge |->
        [id |-> db.knowledge[i].id, title |-> db.knowledge[i].title,
         description |-> db.knowledge[i].content,
         created_at |-> db.knowledge[i].created_at]]

SearchResults(query) ==
    LET term == SearchTerm(query)
    IN  SearchTable("story", db.story, term)
        \o SearchTable("task", db.task, term)
        \o SearchTable("lesson", db.lessons, term)
        \o SearchTable("knowledge", KnowledgeRows, term)

\* A search that keeps, when a category is given, only the lessons and the
\* knowledge notes of that category.
CCMemServer_searchInCategory(args) ==
    IF args.query = NULLTEXT
    THEN Err("TypeError: undefined is not an object")
    ELSE LET InCategory(r) ==
                 \/ args.category = NULL
                 \/ r.type \in {"story", "task"}
                 \/ \E x \in Range(IF r.type = "lesson" THEN db.lessons ELSE db.knowledge) :
                        x.id = r.id /\ x.category = args.category
             results == SelectSeq(SearchResults(args.query), InCategory)
         IN  IF Len(results) = 0
             THEN Ok([tpl |-> "No results found", query |-> args.query])
             ELSE OkText(<<[tpl |-> "## Search Results", query |-> args.query]>>
                         \o Lines(results,
                                  [r \in Range(results) |->
                                      <<[tpl |-> "result", type |-> r.type, id |-> r.id,
                                         title |-> r.title],
                                        [tpl |-> "preview",
                                         preview |-> Substring(r.description,
                                                               SearchPreviewLength),
                                         ellipsis |-> TRUE]>>]))

\* The category argument is destructured and never read.
CCMemServer_search(args) ==
    IF args.query = NULLTEXT
    THEN Err("TypeError: undefined is not an object")
    ELSE LET results == SearchResults(args.query)
         IN  IF Len(results) = 0
             THEN Ok([tpl |-> "No results found", query |-> args.query])
             ELSE OkText(<<[tpl |-> "## Search Results", query |-> args.query]>>
                         \o Lines(results,
                                  [r \in Range(results) |->
                                      <<[tpl |-> "result", type |-> r.type, id |-> r.id,
                                         title |-> r.title],
                                        [tpl |-> "preview",
                                         preview |-> Substring(r.description,
                                                               SearchPreviewLength),
                                         ellipsis |-> TRUE]>>]))

SearchArgs ==
    {[query |-> q, category |-> c] :
        q \in {NULLTEXT, <<"a">>, <<"B">>, <<"_", "c">>, <<"z">>},
        c \in {NULL, "process"}}

search(args) ==
    /\ last' = [op |-> "search", args |-> args,
                bun |-> CCMemServer_search(args), node |-> UnknownTool]
    /\ UNCHANGED <<now, db, sqlite_sequence, data, file, writable, calls>>

\* ------------------------------------------------------------------ clock
Tick ==
    /\ now < MaxClock
    /\ now' = now + 1
    /\ UNCHANGED <<db, sqlite_sequence, data, file, writable, last, calls>>

\* ------------------------------------------------------------------ disk
\* The backing file of the fallback server becomes unwritable (disk full,
\* permissions) or writable again.
DiskFault ==
    /\ writable' = ~writable
    /\ UNCHANGED <<now, db, sqlite_sequence, data, file, last, calls>>

\* ------------------------------------------------------------------ startup
\* ccmem.json becomes unreadable (permissions, a truncated or garbled file) or
\* readable again; its last good content stays on the disk.
Corrupt ==
    /\ readable' = ~readable
    /\ UNCHANGED <<now, db, sqlite_sequence, data, file, writable, last, calls,
                   peer, stdin, stdout>>

\* loadData: whatever goes wrong in reading or parsing, the server goes on
\* with the empty structure.
loadData ==
    [data |-> IF readable THEN file ELSE EmptyStore,
     resp |-> [ok |-> TRUE, text |-> <<>>]]

\* The fallback server process is started again on the existing ccmem.json:
\* initializeStorage takes the loadData branch.  The SQLite server keeps its
\* rows in ccmem.sqlite, which this fault does not concern.
Restart ==
    /\ data' = loadData.data
    /\ last' = [op |-> "initializeStorage", args |-> [readable |-> readable],
                node |-> loadData.resp]
    /\ UNCHANGED <<now, db, sqlite_sequence, file, writable, calls,
                   readable, peer, stdin, stdout>>

\* ------------------------------------------------------------------ two processes
\* A second server process is started on the same project: it reads ccmem.json
\* into its own this.data.  A second SQLite server opens the same ccmem.sqlite
\* and holds no rows of its own.
PeerStart ==
    /\ peer' = loadData.data
    /\ UNCHANGED <<now, db, sqlite_sequence, data, file, writable, last, calls,
                   readable, stdin, stdout>>

\* ccmem_learn_setting handled by the second process: the SQLite statement
\* runs on the shared database file; the fallback server changes its own
\* this.data and writes all of it to ccmem.json.
PeerLearnSetting(args) ==
    LET b == CCMemServer_learnSetting(args)
        n == CCMemNodeServer_learnSettingOn(peer, args)
    IN  /\ db' = b.db
        /\ sqlite_sequence' = b.seq
        /\ peer' = n.data
        /\ saveData(n.data)
        /\ last' = [op |-> "peerLearnSetting", args |-> args,
                    bun |-> b.resp, node |-> n.resp]
        /\ calls' = calls + 1
        /\ UNCHANGED <<now, data, writable, readable, stdin, stdout>>

\* ------------------------------------------------------------------ requests
\* A request without tool arguments.
NoParams == [none |-> NULL]

\* The client writes a request to the server's stdin; ids count the requests in
\* the order of their arrival.
Send(request) ==
    /\ stdin.sent < MaxRequests
    /\ stdin' = [sent |-> stdin.sent + 1,
                 pending |-> Append(stdin.pending,
                                    [id |-> stdin.sent + 1, method |-> request.method,
                                     name |-> request.name, args |-> request.args])]
    /\ UNCHANGED <<now, db, sqlite_sequence, data, file, writable, last, calls,
                   readable, peer, stdout>>

\* sendResponse and sendError: one message with the id it is given.  The two
\* streams of the process, stdout for results and stderr for errors, are one
\* sequence here, and so are the messages of the two servers.
sendResponse(id, bun, node) ==
    stdout' = Append(stdout, [id |-> id, bun |-> bun, node |-> node])

\* Neither server's store is touched.
StoreUntouched ==
    UNCHANGED <<now, db, sqlite_sequence, data, file, writable, calls>>

\* handleMCPRequest: the switch on the method, then handleCallTool's switch on
\* the tool name; whatever is thrown is sent as an error with the request's id.
handleMCPRequest(request) ==
    \/ /\ request.method = "list_tools"
       /\ last' = [op |-> "list_tools", args |-> request.args,
                   bun |-> Ok([tpl |-> "tools"]), node |-> Ok([tpl |-> "tools"])]
       /\ sendResponse(request.id, last'.bun, last'.node)
       /\ StoreUntouched
    \/ /\ request.method = "call_tool" /\ request.name = "ccmem_learn_setting"
       /\ learnSetting(request.args)
       /\ sendResponse(request.id, last'.bun, last'.node)
    \/ /\ request.method = "call_tool" /\ request.name = "ccmem_get_context"
       /\ getContext(request.args)
       /\ sendResponse(request.id, last'.bun, last'.node)
    \/ /\ request.method = "call_tool"
       /\ request.name \notin {"ccmem_learn_setting", "ccmem_get_context"}
       /\ last' = [op |-> "unknownTool", args |-> request.args,
                   bun |-> UnknownTool, node |-> UnknownTool]
       /\ sendResponse(request.id, last'.bun, last'.node)
       /\ StoreUntouched
    \/ /\ request.method \notin {"initialize", "list_tools", "call_tool"}
       /\ last' = [op |-> "unknownMethod", args |-> request.args,
                   bun |-> Err("Unknown method"), node |-> Err("Unknown method")]
       /\ sendResponse(request.id, last'.bun, last'.node)
       /\ StoreUntouched

\* The 'data' handler of setupMCPHandlers: a chunk of stdin holds the first k
\* of the requests written and not yet read (how a pipe cuts what was written
\* into chunks is not under the server's control).  JSON.parse takes the whole
\* chunk: a single request is handled, anything else is not one JSON value and
\* is answered with one error that carries no id.
onData(k) ==
    /\ k \in 1..Len(stdin.pending)
    /\ stdin' = [stdin EXCEPT !.pending = SubSeq(stdin.pending, k + 1, Len(stdin.pending))]
    /\ IF k = 1
       THEN handleMCPRequest(stdin.pending[1])
       ELSE /\ last' = [op |-> "invalidJSON", args |-> NoParams,
                        bun |-> Err("Invalid JSON"), node |-> Err("Invalid JSON")]
            /\ sendResponse(NULLNUM, last'.bun, last'.node)
            /\ StoreUntouched
    /\ UNCHANGED <<readable, peer>>

\* ------------------------------------------------------------------ properties
Writes == {"learnSetting", "learnArchitecture", "learnDeployment", "createStory",
           "createTask", "logDefect", "recordLesson", "addKnowledge"}

\* The step is a call of tool `op`.
Called(op) == calls' = calls + 1 /\ last'.op = op

LastRow(rows) == rows[Len(rows)]

SameSettingKey(r, category, key) == r.category = category /\ r.key_name = key

HasSettingKey(rows, category, key) ==
    \E r \in Range(rows) : SameSettingKey(r, category, key)

UniqueSettingKeys(rows) ==
    \A i, j \in DOMAIN rows :
        i # j => ~SameSettingKey(rows[i], rows[j].category, rows[j].key_name)

UpsertCount(before, after, category, key) ==
    Len(after) = Len(before) + (IF HasSettingKey(before, category, key) THEN 0 ELSE 1)

\* C1: after any learnSetting, on either server, no two settings share
\* (category, key); a successful learnSetting of an existing key leaves the
\* number of settings unchanged and one of a new key adds exactly one.
C1_SettingsUpsertByKey ==
    [][Called("learnSetting") =>
        LET a == last'.args
        IN  /\ UniqueSettingKeys(db'.settings)
            /\ UniqueSettingKeys(data'.settings)
            /\ last'.bun.ok =>
                  UpsertCount(db.settings, db'.settings, a.category, a.key)
            /\ last'.node.ok =>
                  UpsertCount(data.settings, data'.settings, a.category, a.key)]_vars

\* A key written twice: the second write replaced the row of the first.
C1_Witness ==
    /\ last.op = "learnSetting" /\ last.bun.ok /\ last.node.ok
    /\ calls = 2
    /\ Len(db.settings) = 1 /\ db.settings[1].id = 2
    /\ Len(data.settings) = 1

\* The one row of the key just written holds the value and the description
\* of the call, and the confirmation reports category.key = value.
StoredAsWritten(rows, resp, a) ==
    LET hit == SelectSeq(rows, LAMBDA r : SameSettingKey(r, a.category, a.key))
    IN  /\ Len(hit) = 1
        /\ hit[1].value = a.value
        /\ hit[1].description = a.description
        /\ resp.text = <<[tpl |-> "Learned setting", category |-> a.category,
                          key |-> a.key, value |-> a.value]>>

\* C2: after a successful learnSetting(category, key, v, description) the single
\* row of that key holds v and the description passed with that call (null if
\* none was passed), and the confirmation reports category.key = v.
C2_LastWriteWins ==
    last.op = "learnSetting" =>
        /\ last.bun.ok => StoredAsWritten(db.settings, last.bun, last.args)
        /\ last.node.ok => StoredAsWritten(data.settings, last.node, last.args)

UniqueIds(rows) == \A i, j \in DOMAIN rows : i # j => rows[i].id # rows[j].id

\* C3: no two architecture rows share a component.
C3_ArchitectureUpsertByComponent ==
    \A i, j \in DOMAIN db.architecture :
        i # j => db.architecture[i].component # db.architecture[j].component

\* C4: no two deployment rows share an environment.
C4_DeploymentUpsertByEnvironment ==
    \A i, j \in DOMAIN db.deployment :
        i # j => db.deployment[i].environment # db.deployment[j].environment

AppendTables == {"story", "task", "defect", "lessons", "knowledge"}

\* C5: in each of story, task, defect, lessons and knowledge every row a create
\* adds gets an id greater than every id the table holds, the rows already there
\* keep theirs, and no id occurs twice.
C5_AppendIdsFreshAndIncreasing ==
    [][\A t \in AppendTables :
          /\ UniqueIds(db'[t])
          /\ db'[t] # db[t] =>
                /\ Len(db'[t]) = Len(db[t]) + 1
                /\ SubSeq(db'[t], 1, Len(db[t])) = db[t]
                /\ \A r \in Range(db[t]) : r.id < LastRow(db'[t]).id]_vars

\* Two lessons recorded, the second after the first.
C5_Witness ==
    /\ last.op = "recordLesson" /\ last.bun.ok
    /\ Len(db.lessons) = 2 /\ db.lessons[1].id < db.lessons[2].id

\* The required fields of each tool's inputSchema.
MissingRequired(op, a) ==
    CASE op = "learnSetting" -> a.category = NULL \/ a.key = NULL \/ a.value = NULL
      [] op = "learnArchitecture" ->
            a.component = NULL \/ a.description = NULL \/ a.tech_stack = NULL
      [] op = "learnDeployment" -> a.environment = NULL \/ a.deployment_steps = NULL
      [] op \in {"createStory", "createTask", "logDefect"} ->
            a.title = NULLTEXT \/ a.description = NULLTEXT
      [] op = "recordLesson" ->
            a.title = NULLTEXT \/ a.description = NULLTEXT \/ a.category = NULL
      [] op = "addKnowledge" -> a.title = NULLTEXT \/ a.content = NULLTEXT
      [] OTHER -> FALSE

\* C6: a write that omits a required field is answered with an error by either
\* server and leaves the store as it was.
C6_MissingFieldRejected ==
    [][(calls' = calls + 1 /\ MissingRequired(last'.op, last'.args)) =>
          /\ ~last'.bun.ok /\ ~last'.node.ok
          /\ db' = db /\ data' = data /\ file' = file]_vars

\* C7: a create that omits its optional fields stores the declared defaults.
C7_DefaultsApplied ==
    (last.op \in Writes /\ last.bun.ok) =>
        /\ last.op = "createStory" =>
              /\ LastRow(db.story).status = "active"
              /\ last.args.priority = NULLNUM => LastRow(db.story).priority = 3
        /\ last.op = "createTask" => LastRow(db.task).status = "todo"
        /\ last.op = "logDefect" =>
              /\ LastRow(db.defect).status = "open"
              /\ last.args.severity = NULL => LastRow(db.defect).severity = "medium"
        /\ (last.op = "recordLesson" /\ last.args.impact_level = NULL) =>
              LastRow(db.lessons).impact_level = "medium"
        /\ (last.op = "addKnowledge" /\ last.args.category = NULL) =>
              LastRow(db.knowledge).category = "general"

\* A story created without a priority.
C7_Witness ==
    /\ last.op = "createStory" /\ last.bun.ok /\ last.args.priority = NULLNUM
    /\ LastRow(db.story).priority = 3

Dangling(t, ref) == ref # NULLNUM /\ \A r \in Range(db[t]) : r.id # ref

\* Every read a caller can issue is answered without an error.
ReadsAnswer ==
    /\ \A args \in FocusArgs : CCMemServer_getContext(args).ok
    /\ \A args \in SearchArgs :
          args.query # NULLTEXT => CCMemServer_search(args).ok

\* The task just created is on the pending list of getContext('current').
ListedAsPending(task) ==
    \E i \in DOMAIN CCMemServer_getContext([focus |-> "current"]).text :
        CCMemServer_getContext([focus |-> "current"]).text[i] =
            [tpl |-> "- Task", id |-> task.id, title |-> task.title, status |-> "todo"]

\* C8 as stated: createTask and logDefect with a reference to no existing row
\* succeed and store the reference as given; the task is listed as pending, and
\* reads are answered without an error.
C8_DanglingStoredAsGiven ==
    /\ (last.op = "createTask" /\ ~MissingRequired(last.op, last.args)
        /\ last.args.story_id # NULLNUM /\ LastRow(db.task).id # last.args.story_id
        /\ \A r \in Range(db.story) : r.id # last.args.story_id) =>
            /\ last.bun.ok
            /\ LastRow(db.task).story_id = last.args.story_id
    /\ (last.op = "logDefect" /\ last.bun.ok) =>
            /\ Dangling("story", last.args.story_id) =>
                  LastRow(db.defect).story_id = last.args.story_id
            /\ Dangling("task", last.args.task_id) =>
                  LastRow(db.defect).task_id = last.args.task_id

\* C8 amended: the same for references other than 0; a reference of 0 is
\* stored as no reference.
C8_DanglingReferenceTolerated ==
    /\ (last.op = "createTask" /\ ~MissingRequired(last.op, last.args)) =>
          /\ last.bun.ok
          /\ LastRow(db.task).story_id =
                (IF last.args.story_id = 0 THEN NULLNUM ELSE last.args.story_id)
          /\ Len(db.task) <= PendingTasksLimit => ListedAsPending(LastRow(db.task))
    /\ (last.op = "logDefect" /\ ~MissingRequired(last.op, last.args)) =>
          /\ last.bun.ok
          /\ LastRow(db.defect).story_id =
                (IF last.args.story_id = 0 THEN NULLNUM ELSE last.args.story_id)
          /\ LastRow(db.defect).task_id =
                (IF last.args.task_id = 0 THEN NULLNUM ELSE last.args.task_id)
    /\ ReadsAnswer
    /\ last.op \in {"getContext", "search"} =>
          last.bun.ok \/ (last.op = "search" /\ last.args.query = NULLTEXT)

\* A task that refers to story 7 while no story 7 exists, then read back.
C8_Witness ==
    /\ last.op = "getContext" /\ last.args.focus = "current" /\ last.bun.ok
    /\ \E i \in DOMAIN db.task : Dangling("story", db.task[i].story_id)
    /\ \E i \in DOMAIN last.bun.text : last.bun.text[i].tpl = "- Task"

\* The confirmation names the row written: its id for an append, its key for
\* an upsert.
Identifies(op, line, a) ==
    CASE op = "learnSetting" -> line.category = a.category /\ line.key = a.key
      [] op = "learnArchitecture" -> line.component = a.component
      [] op = "learnDeployment" -> line.environment = a.environment
      [] op = "createStory" -> "id" \in DOMAIN line /\ line.id = LastRow(db.story).id
      [] op = "createTask" -> "id" \in DOMAIN line /\ line.id = LastRow(db.task).id
      [] op = "logDefect" -> "id" \in DOMAIN line /\ line.id = LastRow(db.defect).id
      [] op = "recordLesson" -> "id" \in DOMAIN line /\ line.id = LastRow(db.lessons).id
      [] op = "addKnowledge" -> "id" \in DOMAIN line /\ line.id = LastRow(db.knowledge).id

\* C9: every successful write is confirmed with the id assigned (appends) or
\* the natural key written (upserts).
C9_ConfirmationIdentifiesEntity ==
    last.op \in Writes =>
        /\ last.bun.ok => Identifies(last.op, last.bun.text[1], last.args)
        /\ last.node.ok => Identifies(last.op, last.node.text[1], last.args)

HasLine(text, line) == \E i \in DOMAIN text : text[i].tpl = line.tpl /\ text[i] = line

\* The command line is there exactly when the setting is, with its value.
CommandShown(text, tpl, settings, category) ==
    LET shown == {i \in DOMAIN text : text[i].tpl = tpl}
    IN  /\ shown # {} <=> HasSettingKey(settings, category, "command")
        /\ \A i \in shown :
              \E r \in Range(settings) :
                  SameSettingKey(r, category, "command") /\ text[i].value = r.value

StatusSummary(text, store) ==
    /\ HasLine(text, [tpl |-> "- Active Stories",
                      n |-> Len(SelectSeq(store.story, LAMBDA r : r.status = "active"))])
    /\ HasLine(text, [tpl |-> "- Pending Tasks",
                      n |-> Len(SelectSeq(store.task,
                                          LAMBDA r : r.status \in {"todo", "in_progress"}))])
    /\ HasLine(text, [tpl |-> "- Open Defects",
                      n |-> Len(SelectSeq(store.defect, LAMBDA r : r.status = "open"))])
    /\ HasLine(text, [tpl |-> "- Lessons Learned", n |-> Len(store.lessons)])
    /\ CommandShown(text, "- Start Command", store.settings, "start")
    /\ CommandShown(text, "- Test Command", store.settings, "test")

\* C10: for every store and focus the answer of getContext, from either server,
\* holds the status summary with the four counts, and the start and test command
\* lines exactly when those settings exist, showing their values.
C10_StatusSummary ==
    last.op = "getContext" =>
        /\ last.bun.ok /\ StatusSummary(last.bun.text, db)
        /\ last.node.ok /\ StatusSummary(last.node.text, data)


\* The part of the answer a line belongs to.
SectionOf(tpl) ==
    CASE tpl \in {"## Key Settings", "- setting"} -> "settings"
      [] tpl \in {"## Architecture", "- component", "  - Tech"} -> "architecture"
      [] tpl \in {"## Active Stories", "- Story", "## Pending Tasks", "- Task"} -> "current"
      [] tpl \in {"## Recent Lessons", "- lesson"} -> "recent"
      [] OTHER -> "status"

\* Every line is of the status summary or of a section the focus selects.
FocusSelects(focus, text) ==
    \A i \in DOMAIN text :
        \/ SectionOf(text[i].tpl) = "status"
        \/ focus \in {NULL, "all"}
        \/ SectionOf(text[i].tpl) = focus

\* C11: the answer of getContext, from either server, holds the lines of a
\* section only if the focus is all (or absent) or names that section; with
\* any other focus value it holds the status summary alone.
C11_SectionsFollowFocus ==
    last.op = "getContext" =>
        /\ last.bun.ok /\ FocusSelects(last.args.focus, last.bun.text)
        /\ last.node.ok /\ FocusSelects(last.args.focus, last.node.text)

\* getContext('settings') on a store that holds settings, stories, tasks and
\* lessons: the settings are listed.
C11_Witness ==
    /\ last.op = "getContext" /\ last.args.focus = "settings"
    /\ db.settings # <<>> /\ db.story # <<>> /\ db.task # <<>> /\ db.lessons # <<>>
    /\ \E i \in DOMAIN last.bun.text : last.bun.text[i].tpl = "- setting"
    /\ \E i \in DOMAIN last.node.text : last.node.text[i].tpl = "- setting"

\* The ids of the lines of one kind, in the order of the answer.
ListedIds(text, tpl) ==
    LET lines == SelectSeq(text, LAMBDA l : l.tpl = tpl)
    IN  [i \in DOMAIN lines |-> lines[i].id]

RowOf(rows, id) == CHOOSE r \in Range(rows) : r.id = id

Min(a, b) == IF a < b THEN a ELSE b

\* Story x sorts strictly before story y: priority ascending, createdAt descending.
StoryBefore(x, y) ==
    x.priority < y.priority \/ (x.priority = y.priority /\ x.created_at > y.created_at)

\* Task x sorts strictly before task y: createdAt descending.
TaskBefore(x, y) == x.created_at > y.created_at

\* ids are the first min(k, n) of the n rows in an order that agrees with the
\* sort: different rows, in sorted order, none of the rows left out sorting
\* strictly before a listed one.
FirstStories(ids, rows, k) ==
    /\ Len(ids) = Min(k, Len(rows))
    /\ \A i \in DOMAIN ids : \E r \in Range(rows) : r.id = ids[i]
    /\ \A i, j \in DOMAIN ids :
          i < j => ids[i] # ids[j] /\ ~StoryBefore(RowOf(rows, ids[j]), RowOf(rows, ids[i]))
    /\ \A r \in Range(rows) :
          (\A i \in DOMAIN ids : ids[i] # r.id) =>
              \A i \in DOMAIN ids : ~StoryBefore(r, RowOf(rows, ids[i]))

FirstTasks(ids, rows, k) ==
    /\ Len(ids) = Min(k, Len(rows))
    /\ \A i \in DOMAIN ids : \E r \in Range(rows) : r.id = ids[i]
    /\ \A i, j \in DOMAIN ids :
          i < j => ids[i] # ids[j] /\ ~TaskBefore(RowOf(rows, ids[j]), RowOf(rows, ids[i]))
    /\ \A r \in Range(rows) :
          (\A i \in DOMAIN ids : ids[i] # r.id) =>
              \A i \in DOMAIN ids : ~TaskBefore(r, RowOf(rows, ids[i]))

\* C12: with focus all (or absent) or current, the stories listed are the first
\* min(3, n) of the n active stories by priority ascending, then createdAt
\* descending, and the tasks listed the first min(5, m) of the m tasks in todo or
\* in_progress by createdAt descending; nothing else is listed.
C12_CurrentWorkLists ==
    (last.op = "getContext" /\ last.args.focus \in {NULL, "all", "current"}) =>
        /\ last.bun.ok
        /\ FirstStories(ListedIds(last.bun.text, "- Story"),
                        SelectSeq(db.story, LAMBDA r : r.status = "active"), 3)
        /\ FirstTasks(ListedIds(last.bun.text, "- Task"),
                      SelectSeq(db.task, LAMBDA r : r.status \in {"todo", "in_progress"}),
                      5)

\* Six pending tasks, the last created later than the first: five are listed,
\* the newest first.
C12_Witness ==
    /\ last.op = "getContext" /\ last.args.focus = "current"
    /\ Len(db.task) = 6 /\ db.task[1].created_at < db.task[6].created_at
    /\ Len(ListedIds(last.bun.text, "- Task")) = 5
    /\ ListedIds(last.bun.text, "- Task")[1] = db.task[6].id

\* (category, key) of line x is not after that of line y.
SettingKeyLeq(x, y) ==
    \/ CollationIndex(x.category) < CollationIndex(y.category)
    \/ /\ x.category = y.category
       /\ CollationIndex(x.key_name) <= CollationIndex(y.key_name)

\* The setting lines show each stored setting once, in ascending (category, key).
SettingsListed(text, rows) ==
    LET lines == SelectSeq(text, LAMBDA l : l.tpl = "- setting")
    IN  /\ Len(lines) = Len(rows)
        /\ \A r \in Range(rows) :
              Cardinality({i \in DOMAIN lines :
                              /\ lines[i].category = r.category
                              /\ lines[i].key_name = r.key_name
                              /\ lines[i].value = r.value}) = 1
        /\ \A i, j \in DOMAIN lines :
              (i < j /\ NULL \notin {lines[i].category, lines[i].key_name,
                                     lines[j].category, lines[j].key_name}) =>
                  SettingKeyLeq(lines[i], lines[j])

\* C13: with focus all (or absent) or settings, the answer of either server
\* lists every stored setting exactly once, in ascending (category, key) order,
\* whatever the order of the writes.
C13_SettingsSorted ==
    (last.op = "getContext" /\ last.args.focus \in {NULL, "all", "settings"}) =>
        /\ last.bun.ok /\ SettingsListed(last.bun.text, db.settings)
        /\ last.node.ok /\ SettingsListed(last.node.text, data.settings)

\* The first n characters of a text.
FirstChars(text, n) == SubSeq(text, 1, Min(n, Len(text)))

\* The line shows lesson l: title, category, the first 100 characters of the
\* description, and the ellipsis marker exactly when the description is longer.
ShowsLesson(line, l) ==
    /\ line.title = l.title /\ line.category = l.category
    /\ line.preview = FirstChars(l.description, 100)
    /\ line.ellipsis <=> Len(l.description) > 100

\* The lesson lines are the min(3, n) most recently created lessons, newest first.
RecentLessonsListed(text, rows) ==
    LET lines == SelectSeq(text, LAMBDA l : l.tpl = "- lesson")
    IN  /\ Len(lines) = Min(3, Len(rows))
        /\ \E pick \in [DOMAIN lines -> DOMAIN rows] :
              /\ \A i, j \in DOMAIN lines :
                    i < j => /\ pick[i] # pick[j]
                             /\ rows[pick[i]].created_at >= rows[pick[j]].created_at
              /\ \A k \in DOMAIN rows :
                    (\A i \in DOMAIN lines : pick[i] # k) =>
                        \A i \in DOMAIN lines :
                            rows[k].created_at <= rows[pick[i]].created_at
              /\ \A i \in DOMAIN lines : ShowsLesson(lines[i], rows[pick[i]])

\* C14: with focus all (or absent) or recent, the lessons listed are the
\* min(3, n) most recently created, newest first, each with the first 100
\* characters of its description and an ellipsis marker if and only if the
\* description is longer than 100 characters.
C14_RecentLessonsPreview ==
    (last.op = "getContext" /\ last.args.focus \in {NULL, "all", "recent"}) =>
        /\ last.bun.ok /\ RecentLessonsListed(last.bun.text, db.lessons)

SectionHeaders == {"## Key Settings", "## Architecture", "## Active Stories",
                   "## Pending Tasks", "## Recent Lessons"}

\* The kind of line that lists a row under a header.
RowTemplate(header) ==
    CASE header = "## Key Settings" -> "- setting"
      [] header = "## Architecture" -> "- component"
      [] header = "## Active Stories" -> "- Story"
      [] header = "## Pending Tasks" -> "- Task"
      [] header = "## Recent Lessons" -> "- lesson"

\* Every section header is followed by a row of its section.
NoEmptyHeader(text) ==
    \A i \in DOMAIN text :
        text[i].tpl \in SectionHeaders =>
            i + 1 \in DOMAIN text /\ text[i + 1].tpl = RowTemplate(text[i].tpl)

\* C15: in the answer of getContext, from either server, a section header
\* appears only with at least one row listed under it.
C15_NoEmptySection ==
    last.op = "getContext" =>
        /\ last.bun.ok /\ NoEmptyHeader(last.bun.text)
        /\ last.node.ok /\ NoEmptyHeader(last.node.text)

\* getContext('all') on a store with settings and stories but no lesson and no
\* architecture: the headers of the former are there, those of the latter not.
C15_Witness ==
    /\ last.op = "getContext" /\ last.args.focus = "all"
    /\ db.settings # <<>> /\ db.story # <<>>
    /\ db.lessons = <<>> /\ db.architecture = <<>>
    /\ \E i \in DOMAIN last.bun.text : last.bun.text[i].tpl = "## Key Settings"
    /\ \E i \in DOMAIN last.bun.text : last.bun.text[i].tpl = "## Active Stories"
    /\ \A i \in DOMAIN last.bun.text :
          last.bun.text[i].tpl \notin {"## Recent Lessons", "## Architecture"}
    /\ \E i \in DOMAIN last.node.text : last.node.text[i].tpl = "## Key Settings"

\* q occurs in text as a contiguous substring, letters compared without case.
Contains(text, q) ==
    \E k \in 0..(Len(text) - Len(q)) :
        \A j \in 1..Len(q) : LowerChar(text[k + j]) = LowerChar(q[j])

\* The result lines of one entity type name exactly the rows whose title or
\* body contains the query (of at most five matching rows none is cut).
ReturnsMatches(text, type, rows, q) ==
    LET returned == {text[i].id : i \in {j \in DOMAIN text :
                                            text[j].tpl = "result" /\ text[j].type = type}}
        matching == {r.id : r \in {x \in Range(rows) :
                                      Contains(x.title, q) \/ Contains(x.description, q)}}
    IN  /\ returned \subseteq matching
        /\ Cardinality(matching) <= 5 => matching \subseteq returned

\* C16: search returns a story, task or lesson exactly when the query occurs,
\* without regard to case, as a contiguous substring of its title or its
\* description, and a knowledge note exactly when it occurs in its title or
\* content; no character of the query acts as a wildcard, and no other kind of
\* entity is returned.
C16_SearchBySubstring ==
    (last.op = "search" /\ last.args.query # NULLTEXT) =>
        /\ last.bun.ok
        /\ ReturnsMatches(last.bun.text, "story", db.story, last.args.query)
        /\ ReturnsMatches(last.bun.text, "task", db.task, last.args.query)
        /\ ReturnsMatches(last.bun.text, "lesson", db.lessons, last.args.query)
        /\ ReturnsMatches(last.bun.text, "knowledge", KnowledgeRows, last.args.query)
        /\ \A i \in DOMAIN last.bun.text :
              last.bun.text[i].tpl = "result" =>
                  last.bun.text[i].type \in {"story", "task", "lesson", "knowledge"}

\* No story, task, lesson or knowledge note holds the query in its title or body.
NothingMatches(q) ==
    \A r \in Range(db.story) \cup Range(db.task) \cup Range(db.lessons)
              \cup Range(KnowledgeRows) :
        ~(Contains(r.title, q) \/ Contains(r.description, q))

\* C17: when nothing matches the query, on an empty store too, search answers
\* 'No results found' and not an error; a results header never comes without a
\* result line.
C17_NoResultsIsExplicit ==
    (last.op = "search" /\ last.args.query # NULLTEXT) =>
        /\ last.bun.ok
        /\ NothingMatches(last.args.query) =>
              last.bun.text = <<[tpl |-> "No results found", query |-> last.args.query]>>
        /\ (\E i \in DOMAIN last.bun.text : last.bun.text[i].tpl = "## Search Results") =>
              \E i \in DOMAIN last.bun.text : last.bun.text[i].tpl = "result"

\* The rows search reads for an entity type, the body as `description`.
SearchedRows(type) ==
    CASE type = "story" -> db.story
      [] type = "task" -> db.task
      [] type = "lesson" -> db.lessons
      [] type = "knowledge" -> KnowledgeRows

\* The result line names a row by type, id and title, and the line after it
\* previews the first 150 characters of the row's body, with the ellipsis
\* exactly when the body is longer.
ShowsResult(line, preview) ==
    /\ line.type \in {"story", "task", "lesson", "knowledge"}
    /\ \E r \in Range(SearchedRows(line.type)) :
          /\ r.id = line.id /\ r.title = line.title
          /\ preview.tpl = "preview"
          /\ preview.preview = FirstChars(r.description, 150)
          /\ preview.ellipsis <=> Len(r.description) > 150

\* C18: every search result shows type, id and title and then the first 150
\* characters of the body, followed by an ellipsis if and only if the body is
\* longer than 150 characters.
C18_ResultPreview ==
    (last.op = "search" /\ last.bun.ok) =>
        \A i \in DOMAIN last.bun.text :
            last.bun.text[i].tpl = "result" =>
                /\ i + 1 \in DOMAIN last.bun.text
                /\ ShowsResult(last.bun.text[i], last.bun.text[i + 1])

C20_BackendsIndistinguishable ==
    last.op # "none" =>
        /\ last.bun.ok = last.node.ok
        /\ last.bun = last.node

\* The row of (category, key), in a table that holds one.
SettingRow(rows, category, key) ==
    CHOOSE r \in Range(rows) : SameSettingKey(r, category, key)

\* The write replaced a row of another value and the row's updatedAt grew.
UpdatedAtGrows(before, after, a) ==
    (/\ HasSettingKey(before, a.category, a.key)
     /\ SettingRow(before, a.category, a.key).value # a.value) =>
        SettingRow(after, a.category, a.key).updated_at
            > SettingRow(before, a.category, a.key).updated_at

\* C21: a successful learnSetting of a key that is stored with another value
\* leaves the row with an updatedAt strictly greater than the one it had,
\* however soon after the first write it comes; on either server.
C21_UpdatedAtStrictlyGrows ==
    [][(Called("learnSetting") /\ ~MissingRequired("learnSetting", last'.args)) =>
          /\ last'.bun.ok => UpdatedAtGrows(db.settings, db'.settings, last'.args)
          /\ last'.node.ok => UpdatedAtGrows(data.settings, data'.settings, last'.args)]_vars

\* A row that was there for the key written keeps its id.
IdKept(before, after, a) ==
    HasSettingKey(before, a.category, a.key) =>
        SettingRow(after, a.category, a.key).id = SettingRow(before, a.category, a.key).id

\* C22: on either server no two settings carry the same id, and a learnSetting
\* of a key already stored leaves the row with the id it had.
C22_SettingIdStable ==
    [][(Called("learnSetting") /\ ~MissingRequired("learnSetting", last'.args)) =>
          /\ last'.bun.ok =>
                /\ UniqueIds(db'.settings)
                /\ IdKept(db.settings, db'.settings, last'.args)
          /\ last'.node.ok =>
                /\ UniqueIds(data'.settings)
                /\ IdKept(data.settings, data'.settings, last'.args)]_vars

\* C23: every stored story has a priority from 1 to 5: whatever priority a
\* createStory is given, the call is rejected and writes nothing, or the
\* priority stored lies in 1..5.
C23_StoryPriorityInRange ==
    /\ \A r \in Range(db.story) : r.priority \in 1..5
    /\ (last.op = "createStory" /\ ~last.bun.ok) =>
          \A r \in Range(db.story) : r.id # sqlite_sequence.story + 1

\* Place of an entity type in the report.
TypeRank(type) ==
    CASE type = "story" -> 1 [] type = "task" -> 2 [] type = "lesson" -> 3
      [] type = "knowledge" -> 4

\* The rows of a type the search selects for the query.
MatchingRows(type, q) ==
    SelectSeq(SearchedRows(type),
              LAMBDA r : Like(ToLower(r.title), SearchTerm(q))
                         \/ Like(ToLower(r.description), SearchTerm(q)))

\* The ids of the result lines of a type, in the order of the answer.
ResultIds(text, type) ==
    LET lines == SelectSeq(text, LAMBDA l : l.tpl = "result" /\ l.type = type)
    IN  [i \in DOMAIN lines |-> lines[i].id]

\* C24: the result lines come type by type in the order story, task, lesson,
\* knowledge; the lines of a type are the min(5, k) most recently created of
\* the k rows of that type the search selects, newest first, whatever the
\* other types hold; there are never more than 20 result lines.
C24_FourListsConcatenated ==
    (last.op = "search" /\ last.bun.ok) =>
        LET results == SelectSeq(last.bun.text, LAMBDA l : l.tpl = "result")
        IN  /\ \A i, j \in DOMAIN results :
                  i < j => TypeRank(results[i].type) <= TypeRank(results[j].type)
            /\ \A type \in {"story", "task", "lesson", "knowledge"} :
                  FirstTasks(ResultIds(last.bun.text, type),
                             MatchingRows(type, last.args.query), 5)
            /\ Len(results) <= 20

\* Six matching stories, created at different times, and a matching knowledge
\* note: the five newest stories are listed, newest first, then the note.
C24_Witness ==
    /\ last.op = "search" /\ last.bun.ok
    /\ Len(MatchingRows("story", last.args.query)) = 6
    /\ db.story[1].created_at < db.story[6].created_at
    /\ Len(ResultIds(last.bun.text, "story")) = 5
    /\ ResultIds(last.bun.text, "story")[1] = db.story[6].id
    /\ Len(ResultIds(last.bun.text, "knowledge")) = 1

\* The step is a getContext or a search being answered.
ReadAnswered == last' # last /\ last'.op \in {"getContext", "search"}

\* C25: a getContext or a search, answered with a result or with an error,
\* leaves the rows of all eight tables of either server and the content of
\* the backing file as they were.
C25_ReadsChangeNothing ==
    [][ReadAnswered =>
          /\ db' = db /\ sqlite_sequence' = sqlite_sequence
          /\ data' = data /\ file' = file]_vars

\* A search that was answered with an error, on a store that holds a story.
C25_Witness ==
    /\ last.op = "search" /\ ~last.bun.ok /\ ~last.node.ok
    /\ db.story # <<>>

\* C26: a learnSetting whose save fails is answered with an error and leaves
\* the data of the server and the file as they were; a learnSetting that is
\* confirmed has been written to the file.
C26_FailedSaveIsReported ==
    [][Called("learnSetting") =>
          /\ ~writable => (~last'.node.ok /\ data' = data /\ file' = file)
          /\ last'.node.ok => file' = data']_vars

\* The settings the file holds under keys other than the one written are
\* still in the file.
OthersKept(before, after, a) ==
    \A r \in Range(before.settings) :
        ~SameSettingKey(r, a.category, a.key) => r \in Range(after.settings)

\* C27: a start of the fallback server on a ccmem.json that cannot be read or
\* parsed fails, and the server does not go on with an empty data set; no
\* write drops what the file held under other keys.
C27_UnreadableFileAbortsStartup ==
    [][/\ (last' # last /\ last'.op = "initializeStorage" /\ ~readable) =>
             ~last'.node.ok /\ data' = data
       /\ Called("learnSetting") => OthersKept(file, file', last'.args)]_vars

\* The rows of a list of settings that hold the key of a call.
RowsOfKey(rows, a) ==
    {i \in DOMAIN rows : SameSettingKey(rows[i], a.category, a.key)}

\* Exactly one row holds the key just written, with the value just written.
OneRowWritten(rows, a) ==
    /\ Cardinality(RowsOfKey(rows, a)) = 1
    /\ \A i \in RowsOfKey(rows, a) : rows[i].value = a.value

\* C28: with two server processes on one project, a completed learnSetting of
\* either process leaves in the persisted store every setting it held under
\* other keys, and exactly one row for the written key, holding the value
\* written.
C28_NoLostUpdate ==
    [][(Called("learnSetting") \/ Called("peerLearnSetting")) =>
          /\ last'.bun.ok =>
                /\ OthersKept(db, db', last'.args)
                /\ OneRowWritten(db'.settings, last'.args)
          /\ last'.node.ok =>
                /\ OthersKept(file, file', last'.args)
                /\ OneRowWritten(file'.settings, last'.args)]_vars

\* The rows a table held are still there, in their places, as they were.
RowsKept(old, new) ==
    /\ Len(old) <= Len(new)
    /\ \A i \in DOMAIN old : new[i] = old[i]

\* Every story is active, every task to do, every defect open, none completed
\* or resolved.
NeverTransitioned(store) ==
    /\ \A r \in Range(store.story) : r.status = "active" /\ r.completed_at = NULLNUM
    /\ \A r \in Range(store.task) : r.status = "todo" /\ r.completed_at = NULLNUM
    /\ \A r \in Range(store.defect) : r.status = "open" /\ r.resolved_at = NULLNUM

\* C29: no operation changes or removes a row of story, task, defect, lessons
\* or knowledge; stories stay active, tasks to do and defects open, with no
\* completion or resolution time; the four counts of the status summary never
\* decrease.
C29_AppendRowsImmutable ==
    [][/\ \A t \in AppendTables :
             /\ RowsKept(db[t], db'[t])
             /\ RowsKept(data[t], data'[t])
             /\ RowsKept(file[t], file'[t])
       /\ NeverTransitioned(db') /\ NeverTransitioned(data')
       /\ project_status'.active_stories >= project_status.active_stories
       /\ project_status'.pending_tasks >= project_status.pending_tasks
       /\ project_status'.open_defects >= project_status.open_defects
       /\ project_status'.lessons_count >= project_status.lessons_count]_vars

\* A story was created, and then a second one of the same title: both rows are
\* there, the first as it was created.
C29_Witness ==
    /\ last.op = "createStory" /\ last.bun.ok
    /\ Len(db.story) = 2 /\ db.story[1].title = db.story[2].title
    /\ db.story[1].status = "active" /\ db.story[1].updated_at = db.story[1].created_at
    /\ project_status.active_stories = 2

\* The requests read so far, and the messages written so far: one message per
\* request read, the i-th with the id of the i-th request.
AnsweredInOrder ==
    /\ Len(stdout) = stdin.sent - Len(stdin.pending)
    /\ \A i \in DOMAIN stdout : stdout[i].id = i

\* C30: every request read from stdin has been answered by exactly one
\* message, which carries its id, in the order of arrival; an unknown method or
\* tool is answered with an error carrying the request's id and changes
\* nothing in the store.
C30_OneAnswerPerRequestInOrder ==
    [][/\ AnsweredInOrder'
       /\ (Len(stdout') = Len(stdout) + 1
            /\ last'.op \in {"unknownMethod", "unknownTool"}) =>
             /\ ~stdout'[Len(stdout')].bun.ok /\ ~stdout'[Len(stdout')].node.ok
             /\ stdout'[Len(stdout')].id = stdin.pending[1].id
             /\ db' = db /\ data' = data /\ file' = file]_vars

\* ------------------------------------------------------------------ specifications
\* A read changes nothing but the answer: a read issued right after another
\* read reaches no state that the same read issued in its place does not.
AfterWrite == last.op \notin {"getContext", "search"}

NextSettings ==
    \/ calls < MaxSettingCalls /\ \E args \in SettingArgs : learnSetting(args)
       /\ UNCHANGED procvars
    \/ AfterWrite /\ \E args \in FocusArgs : getContext(args)
       /\ UNCHANGED procvars
    \/ Tick
       /\ UNCHANGED procvars

NextUpsert ==
    \/ calls < MaxUpsertCalls /\ \E args \in ArchitectureArgs : learnArchitecture(args)
       /\ UNCHANGED procvars
    \/ calls < MaxUpsertCalls /\ \E args \in DeploymentArgs : learnDeployment(args)
       /\ UNCHANGED procvars
    \/ AfterWrite /\ \E args \in FocusArgs : getContext(args)
       /\ UNCHANGED procvars
    \/ Tick
       /\ UNCHANGED procvars

NextWork ==
    \/ calls < MaxWorkCalls /\ \E args \in StoryArgs : createStory(args)
       /\ UNCHANGED procvars
    \/ calls < MaxWorkCalls /\ \E args \in TaskArgs : createTask(args)
       /\ UNCHANGED procvars
    \/ calls < MaxWorkCalls /\ \E args \in DefectArgs : logDefect(args)
       /\ UNCHANGED procvars
    \/ calls < MaxWorkCalls /\ \E args \in LessonArgs : recordLesson(args)
       /\ UNCHANGED procvars
    \/ calls < MaxWorkCalls /\ \E args \in KnowledgeArgs : addKnowledge(args)
       /\ UNCHANGED procvars
    \/ AfterWrite /\ \E args \in FocusArgs : getContext(args)
       /\ UNCHANGED procvars
    \/ AfterWrite /\ \E args \in SearchArgs : search(args)
       /\ UNCHANGED procvars

\* One input per section of getContext.
ContextSettingArgs == {a \in SettingArgs : a.value \in {"npm test", "3000"}}
ContextArchitectureArgs ==
    {a \in ArchitectureArgs :
        a.component = "api" /\ a.description = "rest api" /\ a.tech_stack # NULL
        /\ a.file_paths = NULL}
ContextStoryArgs == {a \in StoryArgs : a.title = Title1 /\ a.priority = 1}
ContextTaskArgs ==
    {a \in TaskArgs : a.title = Title1 /\ a.description # NULLTEXT /\ a.story_id = 1}
ContextLessonArgs ==
    {a \in LessonArgs : a.title = Title1 /\ a.description # NULLTEXT
                         /\ a.category # NULL /\ a.impact_level = "high"}

NextContext ==
    \/ calls < MaxContextCalls /\ \E args \in ContextSettingArgs : learnSetting(args)
       /\ UNCHANGED procvars
    \/ calls < MaxContextCalls
       /\ \E args \in ContextArchitectureArgs : learnArchitecture(args)
       /\ UNCHANGED procvars
    \/ calls < MaxContextCalls /\ \E args \in ContextStoryArgs : createStory(args)
       /\ UNCHANGED procvars
    \/ calls < MaxContextCalls /\ \E args \in ContextTaskArgs : createTask(args)
       /\ UNCHANGED procvars
    \/ calls < MaxContextCalls /\ \E args \in ContextLessonArgs : recordLesson(args)
       /\ UNCHANGED procvars
    \/ AfterWrite /\ \E args \in FocusArgs : getContext(args)
       /\ UNCHANGED procvars

\* Stories of two priorities and one kind of task, enough of them for the LIMITs.
CurrentStoryArgs ==
    {a \in StoryArgs : a.title = Title1 /\ a.description # NULLTEXT
                        /\ a.priority \in {NULLNUM, 1}}
CurrentTaskArgs ==
    {a \in TaskArgs : a.title = Title1 /\ a.description # NULLTEXT
                       /\ a.story_id = NULLNUM}
CurrentFocusArgs == {a \in FocusArgs : a.focus \in {"all", "current"}}

NextCurrent ==
    \/ calls < MaxCurrentCalls /\ \E args \in CurrentStoryArgs : createStory(args)
       /\ UNCHANGED procvars
    \/ calls < MaxCurrentCalls /\ \E args \in CurrentTaskArgs : createTask(args)
       /\ UNCHANGED procvars
    \/ AfterWrite /\ \E args \in CurrentFocusArgs : getContext(args)
       /\ UNCHANGED procvars
    \/ Tick
       /\ UNCHANGED procvars

\* Stories with a priority absent, zero, negative, inside and above the range.
PriorityStoryArgs ==
    {[title |-> Title1, description |-> Body1, priority |-> p, files_affected |-> NULL] :
        p \in {NULLNUM, 0, -1, 1, 5, 6}}

NextPriority ==
    \/ calls < MaxPriorityCalls /\ \E args \in PriorityStoryArgs : createStory(args)
       /\ UNCHANGED procvars
    \/ AfterWrite /\ \E args \in CurrentFocusArgs : getContext(args)
       /\ UNCHANGED procvars

\* One kind of story, task and knowledge note, enough of them for LIMIT 5;
\* a query that selects all kinds and one that selects stories and tasks only.
SearchStoryArgs == {a \in StoryArgs : a.title = Title1 /\ a.priority = 1}
SearchKnowledgeArgs ==
    {a \in KnowledgeArgs : a.title = Title2 /\ a.content # NULLTEXT
                            /\ a.category = "reference"}
SearchListArgs == {[query |-> q, category |-> NULL] : q \in {<<"a">>, <<"A", "b">>}}

NextSearch ==
    \/ calls < MaxSearchCalls /\ \E args \in SearchStoryArgs : createStory(args)
       /\ UNCHANGED procvars
    \/ calls < MaxSearchCalls /\ \E args \in ContextTaskArgs : createTask(args)
       /\ UNCHANGED procvars
    \/ calls < MaxSearchCalls /\ \E args \in SearchKnowledgeArgs : addKnowledge(args)
       /\ UNCHANGED procvars
    \/ AfterWrite /\ \E args \in SearchListArgs : search(args)
       /\ UNCHANGED procvars
    \/ Tick
       /\ UNCHANGED procvars

\* The fallback server across restarts, on a file that may have become
\* unreadable.
NextStartup ==
    \/ calls < MaxStartupCalls /\ \E args \in ContextSettingArgs : learnSetting(args)
       /\ UNCHANGED procvars
    \/ AfterWrite /\ \E args \in FocusArgs : getContext(args)
       /\ UNCHANGED procvars
    \/ Restart
    \/ Corrupt

\* Two settings, each with two values.
WriterSettingArgs ==
    {[category |-> "start", key |-> k, value |-> v, description |-> NULL] :
        k \in {"command", "port"}, v \in {"npm start", "npm run dev"}}

\* Two server processes on one project, each handling ccmem_learn_setting.
NextWriters ==
    \/ calls < MaxWriterCalls /\ \E args \in WriterSettingArgs : learnSetting(args)
       /\ UNCHANGED procvars
    \/ PeerStart
    \/ calls < MaxWriterCalls /\ \E args \in WriterSettingArgs : PeerLearnSetting(args)
    \/ Tick
       /\ UNCHANGED procvars

\* One input per write tool, the reads of the status view and of the search.
AppendDeploymentArgs ==
    {a \in DeploymentArgs : a.environment = "dev" /\ a.deployment_steps = "push"
                              /\ a.target_host = NULL}
AppendDefectArgs ==
    {a \in DefectArgs : a.title = Title1 /\ a.description # NULLTEXT
                          /\ a.severity = "high"}

\* Every tool of handleCallTool on rows that exist already.
NextAppend ==
    \/ calls < MaxAppendCalls /\ \E args \in ContextSettingArgs : learnSetting(args)
       /\ UNCHANGED procvars
    \/ calls < MaxAppendCalls
       /\ \E args \in ContextArchitectureArgs : learnArchitecture(args)
       /\ UNCHANGED procvars
    \/ calls < MaxAppendCalls /\ \E args \in AppendDeploymentArgs : learnDeployment(args)
       /\ UNCHANGED procvars
    \/ calls < MaxAppendCalls /\ \E args \in ContextStoryArgs : createStory(args)
       /\ UNCHANGED procvars
    \/ calls < MaxAppendCalls /\ \E args \in ContextTaskArgs : createTask(args)
       /\ UNCHANGED procvars
    \/ calls < MaxAppendCalls /\ \E args \in AppendDefectArgs : logDefect(args)
       /\ UNCHANGED procvars
    \/ calls < MaxAppendCalls /\ \E args \in ContextLessonArgs : recordLesson(args)
       /\ UNCHANGED procvars
    \/ calls < MaxAppendCalls /\ \E args \in SearchKnowledgeArgs : addKnowledge(args)
       /\ UNCHANGED procvars
    \/ AfterWrite /\ \E args \in CurrentFocusArgs : getContext(args)
       /\ UNCHANGED procvars
    \/ AfterWrite /\ \E args \in SearchListArgs : search(args)
       /\ UNCHANGED procvars
    \/ Tick
       /\ UNCHANGED procvars

\* A write, a read, the tool list, a tool and a method that do not exist.
Requests ==
    {[method |-> "call_tool", name |-> "ccmem_learn_setting", args |-> a] :
        a \in ContextSettingArgs}
    \cup {[method |-> "call_tool", name |-> "ccmem_get_context", args |-> [focus |-> "all"]],
          [method |-> "call_tool", name |-> "ccmem_delete_story", args |-> NoParams],
          [method |-> "list_tools", name |-> NULL, args |-> NoParams],
          [method |-> "shutdown", name |-> NULL, args |-> NoParams]}

\* The client writes requests, the server reads them chunk by chunk.
NextRequests ==
    \/ \E request \in Requests : Send(request)
    \/ \E k \in 1..MaxRequests : onData(k)

\* Every tool of handleCallTool, in any order.
Next ==
    \/ calls < MaxCalls /\ \E args \in SettingArgs : learnSetting(args)
       /\ UNCHANGED procvars
    \/ calls < MaxCalls /\ \E args \in ArchitectureArgs : learnArchitecture(args)
       /\ UNCHANGED procvars
    \/ calls < MaxCalls /\ \E args \in DeploymentArgs : learnDeployment(args)
       /\ UNCHANGED procvars
    \/ calls < MaxCalls /\ \E args \in StoryArgs : createStory(args)
       /\ UNCHANGED procvars
    \/ calls < MaxCalls /\ \E args \in TaskArgs : createTask(args)
       /\ UNCHANGED procvars
    \/ calls < MaxCalls /\ \E args \in DefectArgs : logDefect(args)
       /\ UNCHANGED procvars
    \/ calls < MaxCalls /\ \E args \in LessonArgs : recordLesson(args)
       /\ UNCHANGED procvars
    \/ calls < MaxCalls /\ \E args \in KnowledgeArgs : addKnowledge(args)
       /\ UNCHANGED procvars
    \/ AfterWrite /\ \E args \in FocusArgs : getContext(args)
       /\ UNCHANGED procvars
    \/ AfterWrite /\ \E args \in SearchArgs : search(args)
       /\ UNCHANGED procvars
    \/ Tick
       /\ UNCHANGED procvars
    \/ DiskFault
       /\ UNCHANGED procvars

Spec == Init /\ [][Next]_vars
SpecSettings == Init /\ [][NextSettings]_vars
SpecUpsert == Init /\ [][NextUpsert]_vars
SpecWork == Init /\ [][NextWork]_vars
SpecContext == Init /\ [][NextContext]_vars
SpecCurrent == Init /\ [][NextCurrent]_vars
SpecPriority == Init /\ [][NextPriority]_vars
SpecSearch == Init /\ [][NextSearch]_vars
SpecStartup == Init /\ [][NextStartup]_vars
SpecWriters == Init /\ [][NextWriters]_vars
SpecAppend == Init /\ [][NextAppend]_vars
SpecRequests == Init /\ [][NextRequests]_vars

====
